---- MODULE Spec2Model ----
(***************************************************************************)
(* Model of the blockchain-lab core: the hash-linked chain of              *)
(* crypto_tools/mini_blockchain.py, the Merkle tree of                     *)
(* crypto_tools/merkle_tree.py, the nonce search of                        *)
(* mining_tools/pow_simulator.py and the calculators of                    *)
(* mining_tools/pow_simulator.py and mining_tools/difficulty.py, the       *)
(* request threads of app.py that share one Blockchain, and the contracts  *)
(* of smart_tools/vending_machine.py, challenge_tools/layer2_demo.py and   *)
(* smart_tools/oracle_demo.py.                                             *)
(*                                                                         *)
(* Strings are sequences of atoms.  An atom is either a character          *)
(* [c |-> "a", h |-> <<>>] or a digest [c |-> "#", h |-> content]: the     *)
(* hexdigest of SHA-256 over `content` is the one-atom string holding the  *)
(* hashed content, so the hash is deterministic and collision free and     *)
(* string concatenation (\o) is modelled as what it is.                    *)
(***************************************************************************)
EXTENDS Integers, Sequences, FiniteSets, TLC

VARIABLES
    chain,        \* Blockchain.chain: the list of Block records
    ret,          \* the last call on the Blockchain and the value it returned
    history,      \* what has changed the chain since construction: "built" (add_block
                  \* alone), "tampered_once" (and one successful tamper_block), "other"
    transactions, \* the list handed to the Merkle functions
    mret,         \* the last Merkle call and the value it returned
    powArgs,      \* mine_block's arguments: data, difficulty, max_attempts
    oracle,       \* SHA-256 as far as mining sees it: for each hashed string, the
                  \* number of leading '0' characters of its hex digest
    powPc,        \* where mine_block is: "idle" (no call running) or "loop"
    nonce,        \* mine_block's local nonce
    hashed,       \* the nonces the running call has hashed, in order
    powResults,   \* the MiningResults of the calls that have returned, in order
    cret,         \* the last calculator call, its arguments and the value it returned
    adders,       \* the request threads of /api/blockchain/add: where each is in
                  \* add_block, and add_block's values read so far
    machine,      \* a VendingMachine: balance, products, transaction_log
    channel,      \* a PaymentChannel: balances, is_open, off_chain_tx_count, log
    contract,     \* an InsuranceContract: policies, contract_balance
    out           \* the last call on machine, channel or contract and its result

bcVars == <<chain, ret, history>>
mkVars == <<transactions, mret>>
powVars == <<powArgs, oracle, powPc, nonce, hashed, powResults>>
calcVars == <<cret>>
demoVars == <<machine, channel, contract, out>>
restVars == <<adders, demoVars>>
vars == <<chain, ret, history, transactions, mret,
          powArgs, oracle, powPc, nonce, hashed, powResults, cret,
          adders, machine, channel, contract, out>>

----------------------------------------------------------------------------
(* Bounds *)

MaxChain == 3      \* longest chain built (genesis included)
MaxArbLen == 3     \* longest chain of arbitrary field values
MaxTx == 6         \* longest transaction list
MaxPermLen == 5    \* longest transaction list whose reorderings are compared
MaxAttempts == 3   \* largest max_attempts handed to mine_block
MaxCalls == 2      \* calls of mine_block with the same arguments
MaxDifficulty == 4 \* largest difficulty handed to estimate_mining_time
MaxHeight == 4040  \* largest current_height handed to get_epoch_blocks
NumThreads == 2    \* request threads of /api/blockchain/add
MaxStock == 2      \* largest stock a product starts with
MaxPurchases == 3  \* calls of deposit_and_dispense on one machine
MaxDeposit == 2    \* largest deposit a PaymentChannel is made with
MaxLog == 4        \* on-chain transactions logged before the last open_channel
MaxTransfers == 3  \* successful transfers on one PaymentChannel
MaxPolicies == 2   \* policy ids handed to the InsuranceContract

----------------------------------------------------------------------------
(* Strings and hashing *)

Ch(c) == [c |-> c, h |-> <<>>]

S1(c) == <<Ch(c)>>

DigitChars == <<"0", "1", "2", "3", "4", "5", "6", "7", "8", "9">>

RECURSIVE Str(_)
\* str(n) of a non-negative int: its decimal digits
Str(n) == IF n < 10 THEN S1(DigitChars[n + 1])
          ELSE Str(n \div 10) \o S1(DigitChars[(n % 10) + 1])

\* str(t) of the float time.time() returns, for whole seconds: "t.0"
FloatStr(t) == Str(t) \o <<Ch("."), Ch("0")>>

\* hashlib.sha256(data.encode('utf-8')).hexdigest()
sha256_hash(data) == <<[c |-> "#", h |-> data]>>

\* "0" * 64: the run of 64 zero characters, kept as one atom
ZeroHash == <<[c |-> "0*64", h |-> <<>>]>>

\* the values time.time() returns (the system clock is not monotonic)
Times == {0, 1}

Payloads == {S1("A"), S1("X")}

GenesisData == <<Ch("G"), Ch("e"), Ch("n"), Ch("e"), Ch("s"), Ch("i"), Ch("s")>>

----------------------------------------------------------------------------
(* Block *)

calculate_hash(b) ==
    sha256_hash(Str(b.index) \o FloatStr(b.timestamp) \o b.data
                \o b.previous_hash \o Str(b.nonce))

\* the dataclass constructor with nonce left at its default, then __post_init__
Block(index, timestamp, data, previous_hash) ==
    LET b == [index |-> index, timestamp |-> timestamp, data |-> data,
              previous_hash |-> previous_hash, nonce |-> 0, hash |-> <<>>]
    IN [b EXCEPT !.hash = calculate_hash(b)]

\* chain[k] with Python's 0-based positions
At(ch, k) == ch[k + 1]

get_latest_block(ch) == ch[Len(ch)]

----------------------------------------------------------------------------
(* Blockchain *)

GenesisBlock(t) == Block(0, t, GenesisData, ZeroHash)

\* add_block linking every block to the first one
NewBlock_LinkFirst(ch, t, data) == Block(Len(ch), t, data, ch[1].hash)

\* add_block taking the recomputed, not the stored, hash of the latest block
NewBlock_Recompute(ch, t, data) ==
    Block(Len(ch), t, data, calculate_hash(get_latest_block(ch)))

\* add_block linking to the block before the latest one
NewBlock_LinkBeforeLast(ch, t, data) ==
    Block(Len(ch), t, data, ch[IF Len(ch) > 1 THEN Len(ch) - 1 ELSE 1].hash)

NewBlock(ch, t, data) == Block(Len(ch), t, data, get_latest_block(ch).hash)

HashError(i) == [block |-> i, kind |-> "HashMismatch"]
LinkError(i) == [block |-> i, kind |-> "LinkBroken"]

Flag(result, e) == [result EXCEPT !.valid = FALSE, !.errors = Append(@, e)]

\* the hash check comparing the stored hash with itself
HashCheck_Never(result, current, i) ==
    IF current.hash # current.hash THEN Flag(result, HashError(i)) ELSE result

HashCheck(result, current, i) ==
    IF current.hash # calculate_hash(current) THEN Flag(result, HashError(i))
    ELSE result

LinkCheck(result, current, previous, i) ==
    IF current.previous_hash # previous.hash THEN Flag(result, LinkError(i))
    ELSE result

\* the link check skipped for a block that already failed the hash check
CheckBlock_ShortCircuit(result, ch, i) ==
    IF At(ch, i).hash # calculate_hash(At(ch, i))
    THEN HashCheck(result, At(ch, i), i)
    ELSE LinkCheck(result, At(ch, i), At(ch, i - 1), i)

CheckBlock(result, ch, i) ==
    LinkCheck(HashCheck(result, At(ch, i), i), At(ch, i), At(ch, i - 1), i)

FirstChecked == 1

RECURSIVE ValidateLoop(_, _, _)
ValidateLoop(result, ch, i) ==
    IF i >= Len(ch) THEN result
    ELSE ValidateLoop(CheckBlock(result, ch, i), ch, i + 1)

is_chain_valid(ch) ==
    ValidateLoop([valid |-> TRUE, errors |-> <<>>, checked_blocks |-> Len(ch)],
                 ch, FirstChecked)

\* the range check without its lower bound
TamperRejects_NoLower(ch, index) == index >= Len(ch)

TamperRejects(ch, index) == index < 0 \/ index >= Len(ch)

\* the position Python's chain[index] names (a negative index counts from the end)
Pos(ch, index) == IF index < 0 THEN Len(ch) + index ELSE index

\* a tamper that also brings the stored hash up to date
TamperedBlock_Rehash(b, new_data) ==
    [b EXCEPT !.data = new_data,
              !.hash = calculate_hash([b EXCEPT !.data = new_data])]

TamperedBlock(b, new_data) == [b EXCEPT !.data = new_data]

\* a tamper that writes to the latest block, whatever the index
TamperedChain_Last(ch, index, new_data) ==
    [ch EXCEPT ![Len(ch)] = TamperedBlock(@, new_data)]

TamperedChain(ch, index, new_data) ==
    [ch EXCEPT ![Pos(ch, index) + 1] = TamperedBlock(@, new_data)]

TamperResult(ch, index, new_data) ==
    IF TamperRejects(ch, index) THEN [success |-> FALSE, error |-> "InvalidIndex"]
    ELSE [success |-> TRUE, block_index |-> index,
          old_data |-> At(ch, Pos(ch, index)).data, new_data |-> new_data]

Call(op, val) == [op |-> op, val |-> val]

\* Blockchain.__init__: an empty chain, then create_genesis_block()
InitChain ==
    /\ \E t \in Times : chain = <<GenesisBlock(t)>>
    /\ ret = Call("__init__", <<>>)
    /\ history = "built"

create_genesis_block ==
    /\ Len(chain) < MaxChain
    /\ \E t \in Times :
         /\ chain' = Append(chain, GenesisBlock(t))
         /\ ret' = Call("create_genesis_block", GenesisBlock(t))
    /\ history' = "other"

add_block ==
    /\ Len(chain) < MaxChain
    /\ \E data \in Payloads, t \in Times :
         /\ chain' = Append(chain, NewBlock(chain, t, data))
         /\ ret' = Call("add_block", NewBlock(chain, t, data))
    /\ UNCHANGED history

tamper_block ==
    /\ \E index \in -1..Len(chain), new_data \in Payloads :
         /\ ret' = Call("tamper_block",
                        [arg_index |-> index, arg_data |-> new_data,
                         out |-> TamperResult(chain, index, new_data)])
         /\ chain' = IF TamperRejects(chain, index) THEN chain
                     ELSE TamperedChain(chain, index, new_data)
         /\ history' = IF TamperRejects(chain, index) THEN history
                       ELSE IF history = "built" THEN "tampered_once" ELSE "other"

is_chain_valid_call ==
    /\ ret' = Call("is_chain_valid", is_chain_valid(chain))
    /\ UNCHANGED <<chain, history>>

----------------------------------------------------------------------------
(* Chains of arbitrary field values, as a caller can make them by assigning
   to the public fields of the Block dataclass *)

JunkHash == sha256_hash(S1("?"))

ArbBlocks(position, pred_hash) ==
    { [index |-> index, timestamp |-> 0, data |-> S1("A"),
       previous_hash |-> previous_hash, nonce |-> 1, hash |-> hash] :
        index \in {position, position + 1},
        previous_hash \in {pred_hash, ZeroHash, JunkHash}, hash \in {<<>>, JunkHash} }

\* the stored hash is either the recomputation over the fields or junk
WithHash(b) == IF b.hash = <<>> THEN [b EXCEPT !.hash = calculate_hash(b)] ELSE b

RECURSIVE ArbChains(_)
ArbChains(n) ==
    IF n = 1 THEN { <<WithHash(b)>> : b \in ArbBlocks(0, ZeroHash) }
    ELSE UNION { { Append(ch, WithHash(b)) : b \in ArbBlocks(n - 1, ch[n - 1].hash) } :
                 ch \in ArbChains(n - 1) }

InitArb ==
    /\ chain \in UNION { ArbChains(n) : n \in 1..MaxArbLen }
    /\ ret = Call("none", <<>>)
    /\ history = "other"

----------------------------------------------------------------------------
(* Merkle tree *)

\* Optional values: None is <<>>, a value v is <<v>>
None == <<>>
Some(v) == <<v>>

TxSet == {S1("a"), S1("b"), S1("c")}

RECURSIVE ListsOfLen(_)
ListsOfLen(n) ==
    IF n = 0 THEN {<<>>}
    ELSE { Append(l, tx) : l \in ListsOfLen(n - 1), tx \in TxSet }

TxLists == UNION { ListsOfLen(n) : n \in 0..MaxTx }

MerkleNode(hash, data, left, right) ==
    [hash |-> hash, data |-> data, left |-> left, right |-> right]

Leaf(tx) == MerkleNode(sha256_hash(tx), Some(tx), None, None)

\* the parent hashing its children in an order that does not depend on which is
\* left and which is right (sorted-pair hashing)
Parent_SortedPair(left, right) ==
    LET first == CHOOSE h \in {left.hash, right.hash} : TRUE
        second == IF first = left.hash THEN right.hash ELSE left.hash
    IN MerkleNode(sha256_hash(first \o second), None, Some(left), Some(right))

\* the parent hashing its children right to left
Parent_Swapped(left, right) ==
    MerkleNode(sha256_hash(right.hash \o left.hash), None, Some(left), Some(right))

Parent(left, right) ==
    MerkleNode(sha256_hash(left.hash \o right.hash), None, Some(left), Some(right))

Last(s) == s[Len(s)]

\* no padding of the transaction list
PadLeaves_None(txs) == txs

\* lines 37-38: an odd number of transactions gets its last one again
PadLeaves(txs) == IF Len(txs) % 2 = 1 THEN txs \o <<Last(txs)>> ELSE txs

\* lines 50-61: the parents of one level, pairs taken left to right
PairLevel(nodes) ==
    [k \in 1..((Len(nodes) + 1) \div 2) |->
        Parent(nodes[2 * k - 1],
               IF 2 * k <= Len(nodes) THEN nodes[2 * k] ELSE nodes[2 * k - 1])]

\* lines 64-65: an odd level above the root's gets its last node again
PadLevel(next_level) ==
    IF Len(next_level) > 1 /\ Len(next_level) % 2 = 1
    THEN Append(next_level, Last(next_level))
    ELSE next_level

RECURSIVE BuildLoop(_)
BuildLoop(nodes) ==
    IF Len(nodes) > 1 THEN BuildLoop(PadLevel(PairLevel(nodes))) ELSE nodes

build_merkle_tree(txs) ==
    IF txs = <<>> THEN None
    ELSE LET padded == PadLeaves(txs)
             nodes == BuildLoop([i \in 1..Len(padded) |-> Leaf(padded[i])])
         IN IF nodes # <<>> THEN Some(nodes[1]) ELSE None

get_merkle_root(txs) ==
    LET root == build_merkle_tree(txs)
    IN IF root # None THEN root[1].hash ELSE <<>>

is_leaf(node) == node.left = None /\ node.right = None

\* hash[:n] of a hex digest: the atom of its first n characters
Prefix(hash, n) == <<[c |-> "#:" \o ToString(n), h |-> hash[1].h]>>

Dots == <<Ch("."), Ch("."), Ch(".")>>

\* The dict get_tree_structure returns, for a node that is not None.  A key the
\* dict lacks ('data', 'left', 'right') is None here, a key it has is Some(value).
RECURSIVE get_tree_structure(_)
get_tree_structure(root) ==
    LET hashes == [hash |-> root.hash, short_hash |-> Prefix(root.hash, 16) \o Dots]
    IN IF is_leaf(root)
       THEN [hash |-> hashes.hash, short_hash |-> hashes.short_hash,
             type |-> "leaf", data |-> Some(root.data),
             left |-> None, right |-> None]
       ELSE [hash |-> hashes.hash, short_hash |-> hashes.short_hash,
             type |-> "node", data |-> None,
             left |-> IF root.left # None
                      THEN Some(get_tree_structure(root.left[1])) ELSE None,
             right |-> IF root.right # None /\ root.right # root.left
                       THEN Some(get_tree_structure(root.right[1])) ELSE None]

\* tree_structure = get_tree_structure(root) if root else {}  (app.py); {} is None
tree_structure(txs) ==
    LET root == build_merkle_tree(txs)
    IN IF root # None THEN Some(get_tree_structure(root[1])) ELSE None

LevelLeaf(tx) == [hash |-> sha256_hash(tx), data |-> tx]

LevelParent(left, right) ==
    [hash |-> sha256_hash(left.hash \o right.hash),
     left_child |-> Prefix(left.hash, 8), right_child |-> Prefix(right.hash, 8)]

\* lines 141-150: the summaries of one level's parents
LevelPairs(current_level) ==
    [k \in 1..((Len(current_level) + 1) \div 2) |->
        LevelParent(current_level[2 * k - 1],
                    IF 2 * k <= Len(current_level) THEN current_level[2 * k]
                    ELSE current_level[2 * k - 1])]

\* lines 140-156: levels grows by one level per turn, until a level of one node
RECURSIVE LevelsLoop(_, _)
LevelsLoop(levels, current_level) ==
    IF Len(current_level) > 1
    THEN LET next_level == PadLevel(LevelPairs(current_level))
         IN LevelsLoop(Append(levels, next_level), next_level)
    ELSE levels

Reverse(s) == [i \in 1..Len(s) |-> s[Len(s) + 1 - i]]

\* the levels handed back in the order they were built, leaves first
RootFirst_NoReverse(levels) == levels

\* line 159: levels[::-1]
RootFirst(levels) == Reverse(levels)

\* build_tree_levels going on with an empty list
build_tree_levels_NoEmptyCheck(txs) ==
    LET padded == PadLeaves(txs)
        leaves == [i \in 1..Len(padded) |-> LevelLeaf(padded[i])]
    IN RootFirst(LevelsLoop(<<leaves>>, leaves))

build_tree_levels(txs) ==
    IF txs = <<>> THEN <<>>
    ELSE LET padded == PadLeaves(txs)
             leaves == [i \in 1..Len(padded) |-> LevelLeaf(padded[i])]
         IN RootFirst(LevelsLoop(<<leaves>>, leaves))

InitMerkleIdle ==
    /\ transactions = <<>>
    /\ mret = Call("none", <<>>)

InitChainIdle ==
    /\ chain = <<GenesisBlock(0)>>
    /\ ret = Call("__init__", <<>>)
    /\ history = "built"

InitMerkle ==
    /\ transactions \in TxLists
    /\ mret = Call("none", <<>>)

build_merkle_tree_call ==
    /\ mret' = Call("build_merkle_tree", build_merkle_tree(transactions))
    /\ UNCHANGED transactions

get_merkle_root_call ==
    /\ mret' = Call("get_merkle_root", get_merkle_root(transactions))
    /\ UNCHANGED transactions

get_tree_structure_call ==
    /\ mret' = Call("get_tree_structure", tree_structure(transactions))
    /\ UNCHANGED transactions

build_tree_levels_call ==
    /\ mret' = Call("build_tree_levels", build_tree_levels(transactions))
    /\ UNCHANGED transactions

----------------------------------------------------------------------------
(* Proof of work: mining_tools/pow_simulator.py *)

HexLen == 64

PowData == S1("B")

\* f"{data}{nonce}"
BlockData(data, n) == data \o Str(n)

\* the leading-zero counts a digest is given: none, two, all of its characters
ZeroCounts == {0, 2, HexLen}

Difficulties == {-1, 0, 2, 3, HexLen + 1}

Repeat(c, n) == IF n <= 0 THEN <<>> ELSE [i \in 1..n |-> Ch(c)]

\* The hex digest of block_data: its leading zeros, then one atom for the
\* characters after them, which holds the hashed string.
pow_sha256_hash(block_data) ==
    Repeat("0", oracle[block_data])
        \o (IF oracle[block_data] < HexLen THEN sha256_hash(block_data) ELSE <<>>)

StartsWith(str, prefix) ==
    /\ Len(prefix) <= Len(str)
    /\ SubSeq(str, 1, Len(prefix)) = prefix

\* a check that looks at the first character alone
check_hash_difficulty_FirstChar(hash_hex, difficulty) ==
    StartsWith(hash_hex, Repeat("0", IF difficulty > 1 THEN 1 ELSE difficulty))

\* hash_hex.startswith('0' * difficulty); '0' * n is '' for n <= 0
check_hash_difficulty(hash_hex, difficulty) ==
    StartsWith(hash_hex, Repeat("0", difficulty))

\* the values round(elapsed, 4) takes
Elapsed == {0, 1}

MiningResult(success, n, hash, attempts, time_seconds, difficulty, data) ==
    [success |-> success, nonce |-> n, hash |-> hash, attempts |-> attempts,
     time_seconds |-> time_seconds, difficulty |-> difficulty, data |-> data]

\* a search that starts where the calls before it are counted
StartNonce_Carry(calls) == calls

\* line 49: nonce = 0, whatever the number of calls made before
StartNonce(calls) == 0

\* a loop that passes over every other nonce
NextNonce_Skip(n) == n + 2

\* a loop that never moves on
NextNonce_Stay(n) == n

\* line 69: nonce += 1
NextNonce(n) == n + 1

InitPowIdle ==
    /\ powArgs = [data |-> PowData, difficulty |-> 0, max_attempts |-> 0]
    /\ oracle = <<>>
    /\ powPc = "idle"
    /\ nonce = 0
    /\ hashed = <<>>
    /\ powResults = <<>>

InitPow ==
    /\ powArgs \in [data : {PowData}, difficulty : Difficulties,
                    max_attempts : -1..MaxAttempts]
    /\ oracle \in [{BlockData(PowData, n) : n \in 0..(MaxAttempts - 1)} -> ZeroCounts]
    /\ powPc = "idle"
    /\ nonce = 0
    /\ hashed = <<>>
    /\ powResults = <<>>

\* lines 48-49: a call of mine_block with powArgs starts
mine_block_start ==
    /\ powPc = "idle"
    /\ Len(powResults) < MaxCalls
    /\ powPc' = "loop"
    /\ nonce' = StartNonce(Len(powResults))
    /\ hashed' = <<>>
    /\ UNCHANGED <<powArgs, oracle, powResults>>

\* lines 51-69: one turn of the loop
mine_block_try ==
    /\ powPc = "loop"
    /\ nonce < powArgs.max_attempts
    /\ LET block_hash == pow_sha256_hash(BlockData(powArgs.data, nonce))
       IN /\ hashed' = Append(hashed, nonce)
          /\ IF check_hash_difficulty(block_hash, powArgs.difficulty)
             THEN /\ \E elapsed \in Elapsed :
                       powResults' = Append(powResults,
                           MiningResult(TRUE, nonce, block_hash, nonce + 1, elapsed,
                                        powArgs.difficulty, powArgs.data))
                  /\ powPc' = "idle"
                  /\ UNCHANGED nonce
             ELSE /\ nonce' = NextNonce(nonce)
                  /\ UNCHANGED <<powPc, powResults>>
    /\ UNCHANGED <<powArgs, oracle>>

\* lines 71-81: the loop is left with no nonce found
mine_block_exhausted ==
    /\ powPc = "loop"
    /\ ~(nonce < powArgs.max_attempts)
    /\ \E elapsed \in Elapsed :
         powResults' = Append(powResults,
             MiningResult(FALSE, nonce, <<>>, powArgs.max_attempts, elapsed,
                          powArgs.difficulty, powArgs.data))
    /\ powPc' = "idle"
    /\ UNCHANGED <<powArgs, oracle, nonce, hashed>>

----------------------------------------------------------------------------
(* Calculators: estimate_mining_time of mining_tools/pow_simulator.py and
   get_epoch_blocks, predict_difficulty_adjustment of
   mining_tools/difficulty.py.

   A float is the exact fraction [num, den] with den > 0; round(x, n) gives
   a fraction over 10^n that is nearest to x, either neighbour when x lies
   half-way.  The display strings of the results (expected_human,
   difficulty_human, time_until_adjustment, ...) are left out. *)

Rat(n, d) == [num |-> n, den |-> d]

RatMul(a, b) == Rat(a.num * b.num, a.den * b.den)

RatSub(a, b) == Rat(a.num * b.den - b.num * a.den, a.den * b.den)

RatLt(a, b) == a.num * b.den < b.num * a.den

RatEq(a, b) == a.num * b.den = b.num * a.den

Abs(n) == IF n < 0 THEN -n ELSE n

\* a round() that cuts the digits off instead
Round_Floor(x, scale) == {Rat((scale * x.num) \div x.den, scale)}

\* round(x, n) with scale = 10^n
Round(x, scale) ==
    LET q == (scale * x.num) \div x.den
    IN {Rat(h, scale) : h \in {k \in {q, q + 1} :
                                 2 * Abs(scale * x.num - k * x.den) <= x.den}}

HashRates == {0, 1, 3, 16, 1000, 100000}

estimate_mining_time(difficulty, hash_rate) ==
    LET expected_attempts == 16 ^ difficulty
        expected_seconds == Rat(expected_attempts, hash_rate)
    IN {[difficulty |-> difficulty,
         expected_attempts |-> expected_attempts,
         expected_seconds |-> r,
         hash_rate |-> hash_rate] : r \in Round(expected_seconds, 100)}

BLOCKS_PER_EPOCH == 2016

TARGET_BLOCK_TIME == 600

\* the block counted from zero
blocks_in_epoch_FromZero(current_height, epoch_start) == current_height - epoch_start

blocks_in_epoch(current_height, epoch_start) == current_height - epoch_start + 1

get_epoch_blocks(current_height) ==
    LET epoch_start == (current_height \div BLOCKS_PER_EPOCH) * BLOCKS_PER_EPOCH
        in_epoch == blocks_in_epoch(current_height, epoch_start)
        blocks_remaining == BLOCKS_PER_EPOCH - in_epoch
    IN {[epoch_start |-> epoch_start,
         current_height |-> current_height,
         blocks_in_epoch |-> in_epoch,
         blocks_remaining |-> blocks_remaining,
         progress_percent |-> r] :
            r \in Round(Rat(in_epoch * 100, BLOCKS_PER_EPOCH), 10)}

\* current_difficulty values
NetDifficulties == {0, 1, 7, 100}

\* avg_block_time values in seconds, None for the argument left out
AvgBlockTimes == {None} \cup {Some(t) : t \in {0, 1, 149, 150, 151, 599, 600, 601,
                                               700, 2399, 2400, 2401, 5000}}

\* current_height values of predict_difficulty_adjustment
EdgeHeights == {0, 2015, 2016}

\* TARGET_BLOCK_TIME * 0.95
DefaultAvgBlockTime == (TARGET_BLOCK_TIME * 95) \div 100

\* a clamp with no upper end
AboveMax_Never(adjustment_ratio) == FALSE

AboveMax(adjustment_ratio) == RatLt(Rat(4, 1), adjustment_ratio)

BelowMin(adjustment_ratio) == RatLt(adjustment_ratio, Rat(1, 4))

\* avg_block_time is the number of seconds, defaulted already
predict_difficulty_adjustment(current_difficulty, current_height, avg_block_time) ==
    LET adjustment_ratio == Rat(TARGET_BLOCK_TIME, avg_block_time)
        predicted_difficulty ==
            IF AboveMax(adjustment_ratio) THEN Rat(current_difficulty * 4, 1)
            ELSE IF BelowMin(adjustment_ratio)
                 THEN RatMul(Rat(current_difficulty, 1), Rat(1, 4))
                 ELSE RatMul(Rat(current_difficulty, 1), adjustment_ratio)
        adjustment_percent ==
            IF AboveMax(adjustment_ratio) THEN Rat(300, 1)
            ELSE IF BelowMin(adjustment_ratio) THEN Rat(-75, 1)
                 ELSE RatMul(RatSub(adjustment_ratio, Rat(1, 1)), Rat(100, 1))
    IN {[difficulty |-> current_difficulty,
         block_height |-> current_height,
         start_block |-> epoch_info.epoch_start,
         blocks_completed |-> epoch_info.blocks_in_epoch,
         blocks_remaining |-> epoch_info.blocks_remaining,
         progress_percent |-> epoch_info.progress_percent,
         avg_block_time |-> avg_block_time,
         target_block_time |-> TARGET_BLOCK_TIME,
         predicted_difficulty |-> predicted_difficulty,
         adjustment_percent |-> r] :
            epoch_info \in get_epoch_blocks(current_height),
            r \in Round(adjustment_percent, 100)}

\* a calculator call: its arguments and, once it is done, either the value
\* returned or the exception raised
Pending(op, args) ==
    [op |-> op, args |-> args, done |-> FALSE, raised |-> None, val |-> None]

Returned(op, args, val) ==
    [op |-> op, args |-> args, done |-> TRUE, raised |-> None, val |-> Some(val)]

Raised(op, args, exc) ==
    [op |-> op, args |-> args, done |-> TRUE, raised |-> Some(exc), val |-> None]

InitCalcIdle == cret = Returned("none", <<>>, <<>>)

\* one call of a calculator with any arguments within the bounds
InitCalc ==
    cret \in {Pending("estimate_mining_time", <<difficulty, hash_rate>>) :
                 difficulty \in 0..MaxDifficulty, hash_rate \in HashRates}
             \cup {Pending("get_epoch_blocks", <<current_height>>) :
                      current_height \in 0..MaxHeight}
             \cup {Pending("predict_difficulty_adjustment",
                           <<current_difficulty, current_height, t>>) :
                      current_difficulty \in NetDifficulties,
                      current_height \in EdgeHeights, t \in AvgBlockTimes}

estimate_mining_time_call ==
    /\ cret.op = "estimate_mining_time" /\ ~cret.done
    /\ LET args == cret.args
           difficulty == args[1]
           hash_rate == args[2]
       IN IF hash_rate = 0
          THEN cret' = Raised("estimate_mining_time", args, "ZeroDivisionError")
          ELSE \E v \in estimate_mining_time(difficulty, hash_rate) :
                    cret' = Returned("estimate_mining_time", args, v)

get_epoch_blocks_call ==
    /\ cret.op = "get_epoch_blocks" /\ ~cret.done
    /\ \E v \in get_epoch_blocks(cret.args[1]) :
           cret' = Returned("get_epoch_blocks", cret.args, v)

predict_difficulty_adjustment_call ==
    /\ cret.op = "predict_difficulty_adjustment" /\ ~cret.done
    /\ LET args == cret.args
           current_difficulty == args[1]
           current_height == args[2]
           avg_block_time == IF args[3] = None THEN DefaultAvgBlockTime ELSE args[3][1]
       IN IF avg_block_time = 0
          THEN cret' = Raised("predict_difficulty_adjustment", args, "ZeroDivisionError")
          ELSE \E v \in predict_difficulty_adjustment(current_difficulty,
                                                       current_height, avg_block_time) :
                    cret' = Returned("predict_difficulty_adjustment", args, v)

----------------------------------------------------------------------------
(* Concurrent requests: app.py serves every POST /api/blockchain/add on a
   thread of its own, and each calls add_block on the one global Blockchain.
   A thread can be suspended between any two reads of add_block. *)

Threads == 1..NumThreads

IdleAdder == [pc |-> "idle", data |-> <<>>, index |-> 0, timestamp |-> 0,
              previous_hash |-> <<>>]

InitAddersIdle == adders = [t \in Threads |-> IdleAdder]

\* app.py lines 78-82 and add_block line 66-67: a request arrives, add_block
\* evaluates index = len(self.chain) and timestamp = time.time()
add_block_begin(t) ==
    /\ adders[t].pc = "idle"
    /\ Len(chain) + Cardinality({u \in Threads : adders[u].pc # "idle"}) < MaxChain
    /\ \E data \in Payloads, time \in Times :
         adders' = [adders EXCEPT ![t] =
                      [pc |-> "latest", data |-> data, index |-> Len(chain),
                       timestamp |-> time, previous_hash |-> <<>>]]
    /\ UNCHANGED chain

\* add_block line 69: previous_hash = self.get_latest_block().hash
add_block_latest(t) ==
    /\ adders[t].pc = "latest"
    /\ adders' = [adders EXCEPT ![t].pc = "append",
                                ![t].previous_hash = get_latest_block(chain).hash]
    /\ UNCHANGED chain

\* add_block lines 65 and 71: the Block is made and appended
add_block_append(t) ==
    /\ adders[t].pc = "append"
    /\ chain' = Append(chain, Block(adders[t].index, adders[t].timestamp,
                                    adders[t].data, adders[t].previous_hash))
    /\ adders' = [adders EXCEPT ![t] = IdleAdder]

----------------------------------------------------------------------------
(* VendingMachine: smart_tools/vending_machine.py.

   Amounts of ETH are whole numbers of the unit 0.0005 ETH, the price of the
   cheapest product of create_demo_machine(), and arithmetic on them is exact.
   Of a Transaction the action and the amount are kept; its timestamp and its
   texts are left out. *)

\* the products of a machine: "water" at 0.0005 ETH and "cola" at 0.001 ETH
ProductIds == {"cola", "water"}

Price(product_id) == IF product_id = "cola" THEN 2 ELSE 1

\* the product_id arguments: the products and one that no machine holds
RequestedIds == ProductIds \cup {"tea"}

\* the amount arguments, a negative one included
Amounts == {-1, 0, 1, 2, 3}

Product(price, stock) == [price |-> price, stock |-> stock]

Transaction(action, amount) == [action |-> action, amount |-> amount]

InitMachineIdle ==
    machine = [balance |-> 0, products |-> <<>>, transaction_log |-> <<>>]

\* VendingMachine(), then add_product for each product with some stock
InitMachine ==
    \E stocks \in [ProductIds -> 0..MaxStock] :
        machine = [balance |-> 0,
                   products |-> [id \in ProductIds |-> Product(Price(id), stocks[id])],
                   transaction_log |-> <<>>]

\* lines 86-139: the check that makes the call revert, None if there is none
RevertError(m, product_id, amount) ==
    IF product_id \notin DOMAIN m.products THEN Some("PRODUCT_NOT_FOUND")
    ELSE IF amount < m.products[product_id].price THEN Some("INSUFFICIENT_FUNDS")
    ELSE IF m.products[product_id].stock <= 0 THEN Some("OUT_OF_STOCK")
    ELSE None

\* a sale that hands out the product without counting it
Dispensed_StockKept(m, product_id) ==
    [m EXCEPT !.balance = @ + m.products[product_id].price,
              !.transaction_log =
                  Append(@, Transaction("SUCCESS", m.products[product_id].price))]

\* lines 145-155: the state after a sale
Dispensed(m, product_id) ==
    [m EXCEPT !.balance = @ + m.products[product_id].price,
              !.products[product_id].stock = @ - 1,
              !.transaction_log =
                  Append(@, Transaction("SUCCESS", m.products[product_id].price))]

DispenseResult(m, product_id, amount) ==
    [success |-> TRUE, product |-> product_id,
     paid |-> m.products[product_id].price,
     change |-> amount - m.products[product_id].price,
     remaining_stock |-> Dispensed(m, product_id).products[product_id].stock,
     contract_balance |-> Dispensed(m, product_id).balance]

deposit_and_dispense ==
    /\ Len(machine.transaction_log) < MaxPurchases
    /\ \E product_id \in RequestedIds, amount \in Amounts :
         LET error == RevertError(machine, product_id, amount)
         IN IF error # None
            THEN /\ machine' = [machine EXCEPT !.transaction_log =
                                 Append(@, Transaction("REVERT", amount))]
                 /\ out' = Call("deposit_and_dispense",
                                [product_id |-> product_id, amount |-> amount,
                                 result |-> [success |-> FALSE, error |-> error[1],
                                            refund |-> amount]])
            ELSE /\ machine' = Dispensed(machine, product_id)
                 /\ out' = Call("deposit_and_dispense",
                                [product_id |-> product_id, amount |-> amount,
                                 result |-> DispenseResult(machine, product_id, amount)])
    /\ UNCHANGED <<channel, contract>>

----------------------------------------------------------------------------
(* PaymentChannel: challenge_tools/layer2_demo.py.

   Balances and amounts are whole numbers and arithmetic on them is exact.
   Of a Transaction the parties and the amount are kept; channel_id and the
   timestamps are left out. *)

\* the from_party arguments: either capitalisation, and a stranger
Parties == {"Alice", "alice", "Bob", "carol"}

\* str.lower()
Lower(party) ==
    IF party \in {"Alice", "alice"} THEN "alice"
    ELSE IF party \in {"Bob", "bob"} THEN "bob"
    ELSE party

\* the amount arguments of transfer, zero and a negative one included
TransferAmounts == {-1, 0, 1, 2}

ChannelTx(from_party, to_party, amount) ==
    [from_party |-> from_party, to_party |-> to_party, amount |-> amount,
     tx_type |-> "on_chain"]

\* lines 31-38: PaymentChannel(alice_deposit, bob_deposit)
PaymentChannel(alice_deposit, bob_deposit) ==
    [alice_balance |-> alice_deposit, bob_balance |-> bob_deposit,
     initial_alice |-> alice_deposit, initial_bob |-> bob_deposit,
     is_open |-> FALSE, off_chain_tx_count |-> 0, transaction_log |-> <<>>]

InitChannelIdle == channel = PaymentChannel(0, 0)

InitChannel ==
    \E alice_deposit, bob_deposit \in 0..MaxDeposit :
        channel = PaymentChannel(alice_deposit, bob_deposit)

Failure(error) == [success |-> FALSE, error |-> error]

open_channel ==
    /\ Len(channel.transaction_log) < MaxLog
    /\ IF channel.is_open
       THEN /\ out' = Call("open_channel", Failure("AlreadyOpen"))
            /\ UNCHANGED channel
       ELSE /\ channel' =
                 [channel EXCEPT
                    !.is_open = TRUE,
                    !.transaction_log =
                        @ \o <<ChannelTx("Alice", "Channel", channel.alice_balance),
                               ChannelTx("Bob", "Channel", channel.bob_balance)>>]
            /\ out' = Call("open_channel",
                           [success |-> TRUE,
                            alice_locked |-> channel.alice_balance,
                            bob_locked |-> channel.bob_balance])
    /\ UNCHANGED <<machine, contract>>

\* lines 88 and 94: if self.<from>_balance < amount
TransferRefused(balance, amount) == balance < amount

\* lines 82-100: what makes transfer return without a state change, None if
\* nothing does
TransferError(ch, from_party, amount) ==
    IF ~ch.is_open THEN Some("NotOpen")
    ELSE IF Lower(from_party) = "alice"
         THEN (IF TransferRefused(ch.alice_balance, amount)
               THEN Some("AliceInsufficient") ELSE None)
    ELSE IF Lower(from_party) = "bob"
         THEN (IF TransferRefused(ch.bob_balance, amount)
               THEN Some("BobInsufficient") ELSE None)
    ELSE Some("InvalidSender")

\* lines 90-91, 96-97 and 102
Transferred(ch, from_party, amount) ==
    IF Lower(from_party) = "alice"
    THEN [ch EXCEPT !.alice_balance = @ - amount, !.bob_balance = @ + amount,
                    !.off_chain_tx_count = @ + 1]
    ELSE [ch EXCEPT !.bob_balance = @ - amount, !.alice_balance = @ + amount,
                    !.off_chain_tx_count = @ + 1]

transfer ==
    /\ channel.off_chain_tx_count < MaxTransfers
    /\ \E from_party \in Parties, amount \in TransferAmounts :
         LET error == TransferError(channel, from_party, amount)
             args == [from_party |-> from_party, amount |-> amount]
         IN IF error # None
            THEN /\ out' = Call("transfer", [args |-> args, result |-> Failure(error[1])])
                 /\ UNCHANGED channel
            ELSE /\ channel' = Transferred(channel, from_party, amount)
                 /\ out' = Call("transfer",
                        [args |-> args,
                         result |->
                           [success |-> TRUE,
                            tx_number |-> channel'.off_chain_tx_count,
                            amount |-> amount,
                            alice_balance |-> channel'.alice_balance,
                            bob_balance |-> channel'.bob_balance]])
    /\ UNCHANGED <<machine, contract>>

close_channel ==
    /\ IF ~channel.is_open
       THEN /\ out' = Call("close_channel", Failure("NotOpen"))
            /\ UNCHANGED channel
       ELSE /\ channel' =
                 [channel EXCEPT
                    !.is_open = FALSE,
                    !.transaction_log =
                        @ \o <<ChannelTx("Channel", "Alice", channel.alice_balance),
                               ChannelTx("Channel", "Bob", channel.bob_balance)>>]
            /\ out' = Call("close_channel",
                           [success |-> TRUE,
                            final_alice |-> channel.alice_balance,
                            final_bob |-> channel.bob_balance,
                            off_chain_txs |-> channel.off_chain_tx_count])
    /\ UNCHANGED <<machine, contract>>

----------------------------------------------------------------------------
(* InsuranceContract and FlightOracle: smart_tools/oracle_demo.py.

   Amounts of ETH are whole numbers of the unit 0.001 ETH, the premium of a
   policy, and arithmetic on them is exact.  A policy keeps its flight and its
   status; its buyer and its times are left out. *)

\* FlightOracle._generate_sample_flights: delay_minutes of each flight
SampleFlights ==
    {<<"CA123", 0>>, <<"MU456", 75>>, <<"CZ789", 15>>, <<"HU321", 150>>,
     <<"3U888", 0>>, <<"CA999", 5>>}

SampleDelays ==
    [fn \in {f[1] : f \in SampleFlights} |->
        (CHOOSE f \in SampleFlights : f[1] = fn)[2]]

\* the flight_number arguments: the sample flights and one the oracle lacks
FlightNumbers == DOMAIN SampleDelays \cup {"XX000"}

\* FlightOracle.get_flight_status
get_flight_status(flight_number) ==
    IF flight_number \notin DOMAIN SampleDelays THEN [found |-> FALSE]
    ELSE [found |-> TRUE, flight_number |-> flight_number,
          delay_minutes |-> SampleDelays[flight_number]]

\* the policy_id arguments
PolicyIds == 1..MaxPolicies

\* 10.0 ETH
initial_pool == 10000

\* 0.1 ETH
payout_amount == 100

\* 0.01 * payout_amount
premium == payout_amount \div 100

delay_threshold == 60

\* lines 103-109: InsuranceContract(oracle)
InsuranceContract ==
    [policies |-> <<>>, contract_balance |-> initial_pool]

InitContractIdle == contract = InsuranceContract

purchase_policy ==
    /\ \E policy_id \in PolicyIds, flight_number \in FlightNumbers :
         LET args == [policy_id |-> policy_id, flight_number |-> flight_number]
             policy == [id |-> policy_id, flight_number |-> flight_number,
                        premium_paid |-> premium,
                        potential_payout |-> payout_amount, status |-> "active"]
         IN IF ~get_flight_status(flight_number).found
            THEN /\ out' = Call("purchase_policy",
                                [args |-> args, result |-> Failure("INVALID_FLIGHT")])
                 /\ UNCHANGED contract
            ELSE IF policy_id \in DOMAIN contract.policies
            THEN /\ out' = Call("purchase_policy",
                                [args |-> args, result |-> Failure("DUPLICATE_POLICY")])
                 /\ UNCHANGED contract
            ELSE /\ contract' =
                      [contract EXCEPT !.policies =
                          [k \in DOMAIN @ \cup {policy_id} |->
                              IF k = policy_id THEN policy ELSE @[k]]]
                 /\ out' = Call("purchase_policy",
                                [args |-> args,
                                 result |-> [success |-> TRUE, policy |-> policy]])
    /\ UNCHANGED <<machine, channel>>

\* a check that pays whatever the status of the policy
AlreadyClaimed_Never(policy) == FALSE

\* line 168: if policy["status"] == "claimed"
AlreadyClaimed(policy) == policy.status = "claimed"

\* line 199: if flight_info["delay_minutes"] >= self.delay_threshold
Delayed(flight_info) == flight_info.delay_minutes >= delay_threshold

check_and_claim ==
    /\ \E policy_id \in PolicyIds :
         LET args == [policy_id |-> policy_id]
         IN IF policy_id \notin DOMAIN contract.policies
            THEN /\ out' = Call("check_and_claim",
                                [args |-> args, result |-> Failure("POLICY_NOT_FOUND")])
                 /\ UNCHANGED contract
            ELSE LET policy == contract.policies[policy_id]
                     flight_info == get_flight_status(policy.flight_number)
                 IN IF AlreadyClaimed(policy)
                    THEN /\ out' = Call("check_and_claim",
                                        [args |-> args,
                                         result |-> Failure("ALREADY_CLAIMED")])
                         /\ UNCHANGED contract
                    ELSE IF Delayed(flight_info)
                    THEN /\ contract' =
                              [contract EXCEPT
                                 !.policies[policy_id].status = "claimed",
                                 !.contract_balance = @ - payout_amount]
                         /\ out' = Call("check_and_claim",
                                        [args |-> args,
                                         result |-> [success |-> TRUE, claimed |-> TRUE,
                                                     payout |-> payout_amount,
                                                     oracle_data |-> flight_info]])
                    ELSE /\ out' = Call("check_and_claim",
                                        [args |-> args,
                                         result |-> [success |-> TRUE, claimed |-> FALSE,
                                                     oracle_data |-> flight_info]])
                         /\ UNCHANGED contract
    /\ UNCHANGED <<machine, channel>>

InitRestIdle ==
    InitAddersIdle /\ InitMachineIdle /\ InitChannelIdle /\ InitContractIdle
        /\ out = Call("none", <<>>)

----------------------------------------------------------------------------
(* Specifications *)

Init ==
    InitChain /\ InitMerkleIdle /\ InitPowIdle /\ InitCalcIdle /\ InitRestIdle

Next ==
    \/ create_genesis_block /\ UNCHANGED <<mkVars, powVars, calcVars, restVars>>
    \/ add_block /\ UNCHANGED <<mkVars, powVars, calcVars, restVars>>
    \/ tamper_block /\ UNCHANGED <<mkVars, powVars, calcVars, restVars>>
    \/ is_chain_valid_call /\ UNCHANGED <<mkVars, powVars, calcVars, restVars>>

\* the Blockchain driven through its public methods
Spec == Init /\ [][Next]_vars

NextOps ==
    \/ add_block /\ UNCHANGED <<mkVars, powVars, calcVars, restVars>>
    \/ tamper_block /\ UNCHANGED <<mkVars, powVars, calcVars, restVars>>
    \/ is_chain_valid_call /\ UNCHANGED <<mkVars, powVars, calcVars, restVars>>

\* a new Blockchain driven by add_block, tamper_block and is_chain_valid alone
SpecOps == Init /\ [][NextOps]_vars

NextArb == is_chain_valid_call /\ UNCHANGED <<mkVars, powVars, calcVars, restVars>>

InitArbSpec ==
    InitArb /\ InitMerkleIdle /\ InitPowIdle /\ InitCalcIdle /\ InitRestIdle

\* is_chain_valid() on chains of arbitrary field values
SpecArb == InitArbSpec /\ [][NextArb]_vars

NextMerkle ==
    \/ build_merkle_tree_call /\ UNCHANGED <<bcVars, powVars, calcVars, restVars>>
    \/ get_merkle_root_call /\ UNCHANGED <<bcVars, powVars, calcVars, restVars>>
    \/ get_tree_structure_call /\ UNCHANGED <<bcVars, powVars, calcVars, restVars>>
    \/ build_tree_levels_call /\ UNCHANGED <<bcVars, powVars, calcVars, restVars>>

InitMerkleSpec ==
    InitChainIdle /\ InitMerkle /\ InitPowIdle /\ InitCalcIdle /\ InitRestIdle

\* the Merkle functions on every transaction list within the bounds
SpecMerkle == InitMerkleSpec /\ [][NextMerkle]_vars

NextPow ==
    \/ mine_block_start /\ UNCHANGED <<bcVars, mkVars, calcVars, restVars>>
    \/ mine_block_try /\ UNCHANGED <<bcVars, mkVars, calcVars, restVars>>
    \/ mine_block_exhausted /\ UNCHANGED <<bcVars, mkVars, calcVars, restVars>>

InitPowSpec ==
    InitChainIdle /\ InitMerkleIdle /\ InitPow /\ InitCalcIdle /\ InitRestIdle

\* mine_block called MaxCalls times with the same arguments
SpecPow == InitPowSpec /\ [][NextPow]_vars

\* a call of mine_block that has started keeps running: the interpreter takes
\* the next turn of the loop, or leaves the loop, whenever it can
SpecPowFair ==
    SpecPow /\ WF_vars(mine_block_try /\ UNCHANGED <<bcVars, mkVars, calcVars, restVars>>)
            /\ WF_vars(mine_block_exhausted /\ UNCHANGED <<bcVars, mkVars, calcVars, restVars>>)

NextCalc ==
    \/ estimate_mining_time_call /\ UNCHANGED <<bcVars, mkVars, powVars, restVars>>
    \/ get_epoch_blocks_call /\ UNCHANGED <<bcVars, mkVars, powVars, restVars>>
    \/ predict_difficulty_adjustment_call /\ UNCHANGED <<bcVars, mkVars, powVars, restVars>>

InitCalcSpec ==
    InitChainIdle /\ InitMerkleIdle /\ InitPowIdle /\ InitCalc /\ InitRestIdle

\* each calculator called with every argument within the bounds
SpecCalc == InitCalcSpec /\ [][NextCalc]_vars

otherConc == <<ret, history, mkVars, powVars, calcVars, demoVars>>

NextConc ==
    \/ \E t \in Threads : add_block_begin(t) /\ UNCHANGED otherConc
    \/ \E t \in Threads : add_block_latest(t) /\ UNCHANGED otherConc
    \/ \E t \in Threads : add_block_append(t) /\ UNCHANGED otherConc

InitConcSpec ==
    InitChain /\ InitMerkleIdle /\ InitPowIdle /\ InitCalcIdle /\ InitRestIdle

\* concurrent /api/blockchain/add requests on the global Blockchain
SpecConc == InitConcSpec /\ [][NextConc]_vars

otherDemo == <<bcVars, mkVars, powVars, calcVars, adders>>

NextVending == deposit_and_dispense /\ UNCHANGED otherDemo

InitVendingSpec ==
    InitChainIdle /\ InitMerkleIdle /\ InitPowIdle /\ InitCalcIdle
        /\ InitAddersIdle /\ InitMachine /\ InitChannelIdle /\ InitContractIdle
        /\ out = Call("none", <<>>)

\* purchases on a stocked VendingMachine
SpecVending == InitVendingSpec /\ [][NextVending]_vars

NextChannel ==
    \/ open_channel /\ UNCHANGED otherDemo
    \/ transfer /\ UNCHANGED otherDemo
    \/ close_channel /\ UNCHANGED otherDemo

InitChannelSpec ==
    InitChainIdle /\ InitMerkleIdle /\ InitPowIdle /\ InitCalcIdle
        /\ InitAddersIdle /\ InitMachineIdle /\ InitChannel /\ InitContractIdle
        /\ out = Call("none", <<>>)

\* a PaymentChannel made with non-negative deposits
SpecChannel == InitChannelSpec /\ [][NextChannel]_vars

NextInsurance ==
    \/ purchase_policy /\ UNCHANGED otherDemo
    \/ check_and_claim /\ UNCHANGED otherDemo

InitInsuranceSpec ==
    InitChainIdle /\ InitMerkleIdle /\ InitPowIdle /\ InitCalcIdle
        /\ InitAddersIdle /\ InitMachineIdle /\ InitChannelIdle /\ InitContractIdle
        /\ out = Call("none", <<>>)

\* a new InsuranceContract on the sample flights
SpecInsurance == InitInsuranceSpec /\ [][NextInsurance]_vars


----------------------------------------------------------------------------
(* Properties of the Blockchain *)

Positions(ch) == 0..(Len(ch) - 1)

Count(errors, e) == Cardinality({k \in DOMAIN errors : errors[k] = e})

HashStale(b) == b.hash # calculate_hash(b)

\* C1: a chain that only the constructor and add_block have changed validates:
\* is_chain_valid() returns valid = true, no errors, and has checked every block
\* (calls that change nothing, a rejected tamper_block or is_chain_valid, may
\* come in between).
C1_BuiltChainValid ==
    history = "built" =>
        /\ is_chain_valid(chain) =
               [valid |-> TRUE, errors |-> <<>>, checked_blocks |-> Len(chain)]
        /\ ret.op = "is_chain_valid" => ret.val.valid /\ ret.val.errors = <<>>

C1_Witness ==
    /\ history = "built"
    /\ Len(chain) >= 3
    /\ ret.op = "is_chain_valid"
    /\ ret.val.valid

\* the state right after the one successful tamper_block of a chain that
\* add_block alone had built, with a payload other than the one block i had
AfterFirstTamper ==
    /\ history = "tampered_once"
    /\ ret.op = "tamper_block"
    /\ ret.val.out.success
    /\ ret.val.out.old_data # ret.val.arg_data

OneHashError(ch, i) ==
    is_chain_valid(ch) =
        [valid |-> FALSE, errors |-> <<HashError(i)>>, checked_blocks |-> Len(ch)]

\* C2 as stated: after tamper_block(i, x) on a chain built by add_block alone, for
\* every block index i in range and every payload x other than block i's,
\* is_chain_valid() returns valid = false with exactly one error, the hash
\* mismatch of block i.
C2_Original == AfterFirstTamper => OneHashError(chain, ret.val.arg_index)

\* C2 amended: the same for every index i with 1 <= i < length; tampering the
\* genesis block (i = 0) is not detected: is_chain_valid() starts at block 1 and
\* returns valid = true with no errors.
C2_TamperDetectedAfterGenesis ==
    AfterFirstTamper =>
        IF ret.val.arg_index >= 1
        THEN OneHashError(chain, ret.val.arg_index)
        ELSE is_chain_valid(chain) =
                 [valid |-> TRUE, errors |-> <<>>, checked_blocks |-> Len(chain)]

\* block 1 of a chain of three tampered: block 2's link to it still holds
C2_Witness ==
    /\ AfterFirstTamper
    /\ ret.val.arg_index = 1
    /\ Len(chain) = 3
    /\ is_chain_valid(chain).errors = <<HashError(1)>>

\* C3: tamper_block(index, x) with index < 0 or index >= len(chain) returns the
\* failure value (success = false) and leaves the chain as it was: the same
\* length, every field of every block the same.
C3_RejectedTamperNoMutation ==
    [][(/\ ret'.op = "tamper_block"
        /\ (ret'.val.arg_index < 0 \/ ret'.val.arg_index >= Len(chain)))
       => /\ ret'.val.out.success = FALSE
          /\ ret'.val.out.error = "InvalidIndex"
          /\ chain' = chain]_vars

C3_Witness ==
    /\ ret.op = "tamper_block"
    /\ ret.val.arg_index = -1
    /\ Len(chain) >= 2
    /\ ret.val.out.success = FALSE

\* C4: a successful tamper_block(i, x) changes the payload of block i and nothing
\* else: the length, every other field of every block (block i's stale hash
\* too) and every other block's payload stay, block i's payload becomes x, and
\* the returned old_data is the payload block i had.
C4_TamperChangesPayloadOnly ==
    [][(ret'.op = "tamper_block" /\ ret'.val.out.success)
       => LET i == ret'.val.arg_index
          IN /\ i \in Positions(chain)
             /\ Len(chain') = Len(chain)
             /\ \A k \in Positions(chain) :
                  /\ At(chain', k).index = At(chain, k).index
                  /\ At(chain', k).timestamp = At(chain, k).timestamp
                  /\ At(chain', k).previous_hash = At(chain, k).previous_hash
                  /\ At(chain', k).nonce = At(chain, k).nonce
                  /\ At(chain', k).hash = At(chain, k).hash
                  /\ k # i => At(chain', k).data = At(chain, k).data
             /\ At(chain', i).data = ret'.val.arg_data
             /\ ret'.val.out.old_data = At(chain, i).data
             /\ ret'.val.out.block_index = i
             /\ ret'.val.out.new_data = ret'.val.arg_data]_vars

C4_Witness ==
    /\ ret.op = "tamper_block"
    /\ ret.val.out.success
    /\ ret.val.out.old_data # ret.val.arg_data
    /\ At(chain, ret.val.arg_index).data = ret.val.arg_data
    /\ HashStale(At(chain, ret.val.arg_index))

\* C6: add_block(payload) appends one block: its index is the length before the
\* call, its previous_hash the stored hash of the block that was last (stale or
\* not), its nonce 0, its hash the recomputation over its own fields; the blocks
\* that were there stay as they were and the length grows by one.
C6_AddBlockAppendsOne ==
    [][ret'.op = "add_block"
       => LET n == Len(chain)
              b == chain'[n + 1]
          IN /\ Len(chain') = n + 1
             /\ SubSeq(chain', 1, n) = chain
             /\ b = ret'.val
             /\ b.index = n
             /\ b.previous_hash = chain[n].hash
             /\ b.nonce = 0
             /\ b.data \in Payloads
             /\ b.hash = calculate_hash(b)]_vars

\* a block added after a tampered one: it carries the stale stored hash
C6_Witness ==
    /\ ret.op = "add_block"
    /\ Len(chain) >= 3
    /\ chain[Len(chain)] = ret.val
    /\ HashStale(chain[Len(chain) - 1])
    /\ ret.val.previous_hash = chain[Len(chain) - 1].hash
    /\ ret.val.previous_hash # calculate_hash(chain[Len(chain) - 1])

IsGenesis(b) == b.index = 0 /\ b.previous_hash = ZeroHash

\* C7: in every state the public operations (create_genesis_block, add_block,
\* tamper_block) reach, the block at position k has index k, and position 0, and
\* only position 0, holds the genesis block: index 0 and a previous_hash of 64
\* zero characters.
C7_Original ==
    \A k \in Positions(chain) :
        /\ At(chain, k).index = k
        /\ IsGenesis(At(chain, k)) <=> k = 0

----------------------------------------------------------------------------
(* Properties of is_chain_valid() on arbitrary chains *)

\* C5: is_chain_valid() runs both checks on every block after the genesis block:
\* errors holds one hash-mismatch entry for each of them whose stored hash is not
\* the recomputed one, one link entry for each whose previous_hash is not its
\* predecessor's stored hash (two entries for a block failing both) and nothing
\* else, valid is true iff errors is empty, checked_blocks is the length.
C5_BothChecksEveryBlock ==
    ret.op = "is_chain_valid" =>
        LET r == ret.val
            hashBad(i) == HashStale(At(chain, i))
            linkBad(i) == At(chain, i).previous_hash # At(chain, i - 1).hash
            bad(i) == (IF hashBad(i) THEN 1 ELSE 0) + (IF linkBad(i) THEN 1 ELSE 0)
        IN /\ r.checked_blocks = Len(chain)
           /\ r.valid <=> r.errors = <<>>
           /\ \A i \in 1..(Len(chain) - 1) :
                /\ Count(r.errors, HashError(i)) = (IF hashBad(i) THEN 1 ELSE 0)
                /\ Count(r.errors, LinkError(i)) = (IF linkBad(i) THEN 1 ELSE 0)
           /\ \A k \in DOMAIN r.errors :
                \E i \in 1..(Len(chain) - 1) :
                    r.errors[k] \in {HashError(i), LinkError(i)}

\* one block failing both checks and another failing the link check alone
C5_Witness ==
    /\ ret.op = "is_chain_valid"
    /\ Len(chain) = 3
    /\ ret.val.errors = <<HashError(1), LinkError(1), LinkError(2)>>
    /\ ~ret.val.valid

----------------------------------------------------------------------------
(* Properties of the Merkle tree *)

\* C8: for a single transaction [x] the root build_merkle_tree returns has the
\* leaf digest H(x) as its hash, no pairing step applied, and
\* get_merkle_root([x]) = H(x).
C8_Original ==
    Len(transactions) = 1 =>
        /\ mret.op = "build_merkle_tree" =>
               mret.val[1].hash = sha256_hash(transactions[1])
        /\ mret.op = "get_merkle_root" =>
               mret.val = sha256_hash(transactions[1])

\* The reference algorithm, on digests alone: a level of more than one digest
\* gets its last digest again when its count is odd, then adjacent digests are
\* paired left to right into H(left \o right), until one digest is left.
RefPad(level) == IF Len(level) % 2 = 1 THEN Append(level, level[Len(level)]) ELSE level

RefPair(level) ==
    [k \in 1..(Len(level) \div 2) |-> sha256_hash(level[2 * k - 1] \o level[2 * k])]

RECURSIVE RefFold(_)
RefFold(level) == IF Len(level) <= 1 THEN level ELSE RefFold(RefPair(RefPad(level)))

RefRoot(txs) == RefFold([i \in 1..Len(txs) |-> sha256_hash(txs[i])])[1]

\* C9: for a list of two or more transactions get_merkle_root returns the root of
\* the reference level-by-level algorithm, and build_merkle_tree a node with
\* that hash.
C9_RootIsReferenceRoot ==
    Len(transactions) >= 2 =>
        /\ mret.op = "get_merkle_root" => mret.val = RefRoot(transactions)
        /\ mret.op = "build_merkle_tree" => mret.val[1].hash = RefRoot(transactions)

\* five transactions: six leaves, then three parents, an odd level that is padded
C9_Witness ==
    /\ Len(transactions) = 5
    /\ mret.op = "get_merkle_root"
    /\ mret.val = RefRoot(transactions)
    /\ mret.val # RefRoot(SubSeq(transactions, 1, 4))

\* C10: for a list L of odd length, get_merkle_root(L) is get_merkle_root of L
\* followed by a copy of its last element.
C10_OddListRootIsPaddedRoot ==
    (mret.op = "get_merkle_root" /\ Len(transactions) % 2 = 1) =>
        mret.val = get_merkle_root(Append(transactions, Last(transactions)))

C10_Witness ==
    /\ mret.op = "get_merkle_root"
    /\ transactions = <<S1("a"), S1("b"), S1("c")>>
    /\ mret.val = get_merkle_root(<<S1("a"), S1("b"), S1("c"), S1("c")>>)
    /\ mret.val # get_merkle_root(<<S1("a"), S1("b"), S1("c"), S1("a")>>)

----------------------------------------------------------------------------
(* Further properties of the Merkle tree *)

\* the lists with the elements of L in another order
Occurrences(l, tx) == Cardinality({i \in DOMAIN l : l[i] = tx})

Reorderings(L) ==
    { M \in ListsOfLen(Len(L)) :
        /\ M # L
        /\ \A tx \in TxSet : Occurrences(M, tx) = Occurrences(L, tx) }

\* C11: with a collision-free hash, every reordering of a transaction list L
\* that differs from L as a sequence has another root than L; so
\* get_merkle_root([a, b]) # get_merkle_root([b, a]).  Checked for the lists of
\* at most MaxPermLen transactions.
C11_ReorderingChangesRoot ==
    (mret.op = "get_merkle_root" /\ Len(transactions) <= MaxPermLen) =>
        \A M \in Reorderings(transactions) : get_merkle_root(M) # mret.val

C11_Witness ==
    /\ mret.op = "get_merkle_root"
    /\ transactions = <<S1("a"), S1("b"), S1("a")>>
    /\ Cardinality(Reorderings(transactions)) = 2
    /\ mret.val # get_merkle_root(<<S1("a"), S1("a"), S1("b")>>)

\* C12: the empty transaction list is no error: build_merkle_tree([]) returns
\* None, get_merkle_root([]) the empty string, build_tree_levels([]) the empty
\* list.
C12_EmptyListIsNoError ==
    transactions = <<>> =>
        /\ mret.op = "build_merkle_tree" => mret.val = None
        /\ mret.op = "get_merkle_root" => mret.val = <<>>
        /\ mret.op = "build_tree_levels" => mret.val = <<>>

C12_Witness ==
    /\ transactions = <<>>
    /\ mret.op = "build_tree_levels"
    /\ mret.val = <<>>

\* C13: for a non-empty list both diagnostic views agree with get_merkle_root:
\* the 'hash' of get_tree_structure(build_merkle_tree(L)) is the root, and
\* build_tree_levels(L) starts with a level of one node whose hash is the root
\* and ends with the level of the leaves.
C13_ViewsAgreeWithRoot ==
    transactions # <<>> =>
        /\ mret.op = "get_tree_structure" =>
               mret.val[1].hash = get_merkle_root(transactions)
        /\ mret.op = "build_tree_levels" =>
               /\ Len(mret.val[1]) = 1
               /\ mret.val[1][1].hash = get_merkle_root(transactions)
               /\ \A k \in DOMAIN mret.val : k > 1 => Len(mret.val[k]) > 1
               /\ Len(Last(mret.val)) >= Len(transactions)
               /\ \A i \in DOMAIN transactions :
                    Last(mret.val)[i].data = transactions[i]

C13_Witness ==
    /\ Len(transactions) = 5
    /\ mret.op = "build_tree_levels"
    /\ Len(mret.val) = 4
    /\ mret.val[1][1].hash = get_merkle_root(transactions)

----------------------------------------------------------------------------
(* Properties of mine_block *)

RECURSIVE LeadingZeros(_)
LeadingZeros(str) ==
    IF str # <<>> /\ Head(str) = Ch("0") THEN 1 + LeadingZeros(Tail(str)) ELSE 0

\* C14: a MiningResult with success = true carries the digest of data followed by
\* the decimal nonce, that digest starts with `difficulty` '0' characters,
\* 0 <= nonce < max_attempts and attempts = nonce + 1.
C14_SuccessIsSound ==
    \A k \in DOMAIN powResults :
        LET r == powResults[k]
        IN r.success =>
             /\ r.hash = pow_sha256_hash(powArgs.data \o Str(r.nonce))
             /\ LeadingZeros(r.hash) >= powArgs.difficulty
             /\ 0 <= r.nonce /\ r.nonce < powArgs.max_attempts
             /\ r.attempts = r.nonce + 1

\* difficulty 3 met at the third nonce by a digest of zeros, after a digest with
\* two leading zeros was passed over
C14_Witness ==
    /\ powResults # <<>>
    /\ powResults[1].success
    /\ powArgs.difficulty = 3
    /\ powResults[1].nonce = 2
    /\ powResults[1].attempts = 3
    /\ oracle[BlockData(PowData, 1)] = 2

Meets(n) ==
    LeadingZeros(pow_sha256_hash(BlockData(powArgs.data, n))) >= powArgs.difficulty

\* C15: if no nonce in [0, max_attempts) gives a digest that meets the
\* difficulty, which is so for every call with max_attempts = 0, mine_block
\* returns success = false, hash = "", attempts = max_attempts and
\* nonce = max_attempts.
C15_Original ==
    \A k \in DOMAIN powResults :
        (\A n \in 0..(powArgs.max_attempts - 1) : ~Meets(n)) =>
            /\ powResults[k].success = FALSE
            /\ powResults[k].hash = <<>>
            /\ powResults[k].attempts = powArgs.max_attempts
            /\ powResults[k].nonce = powArgs.max_attempts

\* C16: mine_block called with a negative difficulty or a negative max_attempts
\* fails with an argument error: it produces no MiningResult.
C16_Original ==
    (powArgs.difficulty < 0 \/ powArgs.max_attempts < 0) => powResults = <<>>

\* C17 as stated: two calls with the same (data, difficulty, max_attempts) return
\* MiningResults equal in every field.
C17_Original ==
    \A i, j \in DOMAIN powResults : powResults[i] = powResults[j]

Timeless(r) == [r EXCEPT !.time_seconds = 0]

\* C17 amended: two calls with the same (data, difficulty, max_attempts) return
\* MiningResults equal in every field but time_seconds, the measured wall-clock
\* time of the call.
C17_DeterministicButForTime ==
    \A i, j \in DOMAIN powResults : Timeless(powResults[i]) = Timeless(powResults[j])

C17_Witness ==
    /\ Len(powResults) = 2
    /\ powResults[1].success
    /\ powResults[1].nonce = 1
    /\ powResults[1].time_seconds # powResults[2].time_seconds
    /\ Timeless(powResults[1]) = Timeless(powResults[2])

----------------------------------------------------------------------------
(* Properties of the calculators *)

Done(op) == cret.op = op /\ cret.done /\ cret.raised = None

RECURSIVE Pow16(_)
Pow16(d) == IF d = 0 THEN 1 ELSE 16 * Pow16(d - 1)

\* r is a fraction over `scale` and no other one is nearer to x
Nearest(r, x, scale) ==
    /\ r.den = scale
    /\ 2 * Abs(r.num * x.den - scale * x.num) <= x.den

\* C18 as stated: for difficulty >= 0 and hash_rate > 0, estimate_mining_time
\* returns expected_attempts = 16^difficulty and expected_seconds equal to
\* expected_attempts / hash_rate exactly.
C18_Original ==
    (Done("estimate_mining_time") /\ cret.args[1] >= 0 /\ cret.args[2] > 0) =>
        /\ cret.val[1].expected_attempts = Pow16(cret.args[1])
        /\ RatEq(cret.val[1].expected_seconds, Rat(Pow16(cret.args[1]), cret.args[2]))

\* C18 amended: for difficulty >= 0 and hash_rate > 0, estimate_mining_time
\* returns expected_attempts = 16^difficulty and expected_seconds equal to
\* expected_attempts / hash_rate rounded to two decimals: the quotient itself
\* when it has at most two decimals (16 seconds for difficulty 2 at hash_rate 16).
C18_SecondsRoundedToCents ==
    (Done("estimate_mining_time") /\ cret.args[1] >= 0 /\ cret.args[2] > 0) =>
        LET attempts == Pow16(cret.args[1])
            quotient == Rat(attempts, cret.args[2])
        IN /\ cret.val[1].expected_attempts = attempts
           /\ Nearest(cret.val[1].expected_seconds, quotient, 100)
           /\ (100 * attempts) % cret.args[2] = 0
                => RatEq(cret.val[1].expected_seconds, quotient)
           /\ cret.args = <<2, 16>>
                => /\ cret.val[1].expected_attempts = 256
                   /\ RatEq(cret.val[1].expected_seconds, Rat(16, 1))

\* difficulty 1 at 1000 hashes a second: 0.016 seconds, returned as 0.02
C18_Witness ==
    /\ Done("estimate_mining_time")
    /\ cret.args = <<1, 1000>>
    /\ cret.val[1].expected_attempts = 16
    /\ cret.val[1].expected_seconds = Rat(2, 100)

AvgBlockTime == IF cret.args[3] = None THEN DefaultAvgBlockTime ELSE cret.args[3][1]

ClampedRatio(t) ==
    IF 4 * t < 600 THEN Rat(4, 1)
    ELSE IF t > 4 * 600 THEN Rat(1, 4)
         ELSE Rat(600, t)

PercentOf(ratio) == Rat((ratio.num - ratio.den) * 100, ratio.den)

C20_EpochArithmetic ==
    (Done("get_epoch_blocks") /\ cret.args[1] >= 0) =>
        LET h == cret.args[1]
            v == cret.val[1]
        IN /\ v.epoch_start % 2016 = 0
           /\ v.epoch_start <= h /\ h < v.epoch_start + 2016
           /\ v.blocks_in_epoch = h - v.epoch_start + 1
           /\ v.blocks_remaining = 2016 - v.blocks_in_epoch
           /\ 1 <= v.blocks_in_epoch /\ v.blocks_in_epoch <= 2016
           /\ 0 <= v.blocks_remaining /\ v.blocks_remaining <= 2015
           /\ v.blocks_in_epoch + v.blocks_remaining = 2016

\* the last block of the second epoch
C20_Witness ==
    /\ Done("get_epoch_blocks")
    /\ cret.args = <<4031>>
    /\ cret.val[1].epoch_start = 2016
    /\ cret.val[1].blocks_in_epoch = 2016
    /\ cret.val[1].blocks_remaining = 0

----------------------------------------------------------------------------
(* Properties of mine_block's search *)

\* C21: mine_block tries the nonces 0, 1, 2, ... in increasing order and
\* returns the smallest nonce below max_attempts whose digest meets the
\* difficulty: no smaller nonce meets it on success, no nonce below
\* max_attempts does on failure, and with difficulty 0 and max_attempts >= 1 the
\* call succeeds at nonce 0 with attempts 1.
C21_SmallestNonceFirst ==
    /\ \A k \in DOMAIN hashed : hashed[k] = k - 1
    /\ \A k \in DOMAIN powResults :
         LET r == powResults[k]
         IN /\ r.success => /\ Meets(r.nonce)
                            /\ \A n \in 0..(r.nonce - 1) : ~Meets(n)
            /\ ~r.success => \A n \in 0..(powArgs.max_attempts - 1) : ~Meets(n)
            /\ (powArgs.difficulty = 0 /\ powArgs.max_attempts >= 1)
                 => r.success /\ r.nonce = 0 /\ r.attempts = 1

\* two digests without a leading zero are passed over, the third nonce is returned
C21_Witness ==
    /\ powResults # <<>>
    /\ powResults[1].success
    /\ powResults[1].nonce = 2
    /\ powArgs.difficulty = 2
    /\ hashed = <<0, 1, 2>>
    /\ ~Meets(0) /\ ~Meets(1)

\* C22: every call of mine_block ends, after hashing at most max_attempts
\* digests and no nonce twice, whatever the data and the difficulty, a
\* difficulty of more than 64 leading zeros included.
C22_SearchIsBounded ==
    /\ [](/\ Len(hashed) <= (IF powArgs.max_attempts < 0 THEN 0 ELSE powArgs.max_attempts)
          /\ \A i, j \in DOMAIN hashed : hashed[i] = hashed[j] => i = j
          /\ \A k \in DOMAIN hashed : 0 <= hashed[k] /\ hashed[k] < powArgs.max_attempts)
    /\ (powPc = "loop") ~> (powPc = "idle")

\* a difficulty no digest can meet: every nonce below max_attempts was hashed
\* once and the call returned
C22_Witness ==
    /\ powArgs.difficulty = HexLen + 1
    /\ powArgs.max_attempts = MaxAttempts
    /\ Len(hashed) = MaxAttempts
    /\ powPc = "idle"
    /\ powResults # <<>>
    /\ ~powResults[1].success

----------------------------------------------------------------------------
(* Faults of the calculators *)

\* C23: called with non-negative arguments, estimate_mining_time (hash_rate = 0
\* included) and predict_difficulty_adjustment (avg_block_time = 0 included)
\* return a value: neither call ends with an exception.
C23_Original ==
    (/\ cret.done
     /\ cret.op \in {"estimate_mining_time", "predict_difficulty_adjustment"}
     /\ \A k \in DOMAIN cret.args :
          IF cret.args[k] \in Int THEN cret.args[k] >= 0
          ELSE cret.args[k] = None \/ cret.args[k][1] >= 0)
        => cret.raised = None /\ cret.val # None

----------------------------------------------------------------------------
(* Properties of a Blockchain changed by add_block and tamper_block alone *)

\* C24: whatever add_block and tamper_block calls were made on a new
\* Blockchain, every block after the genesis block holds its predecessor's stored
\* hash as previous_hash, so is_chain_valid() reports no broken link: every
\* error is a hash mismatch, also for blocks appended after a tampered one.
C24_LinksNeverBreak ==
    /\ \A i \in Positions(chain) \ {0} :
         At(chain, i).previous_hash = At(chain, i - 1).hash
    /\ \A k \in DOMAIN is_chain_valid(chain).errors :
         is_chain_valid(chain).errors[k].kind = "HashMismatch"
    /\ ret.op = "is_chain_valid" =>
         \A k \in DOMAIN ret.val.errors : ret.val.errors[k].kind = "HashMismatch"

\* block 1 was tampered, block 2 appended after it: the only error is block 1's
\* hash mismatch
C24_Witness ==
    /\ Len(chain) = 3
    /\ HashStale(At(chain, 1))
    /\ ret.op = "is_chain_valid"
    /\ ret.val.errors = <<HashError(1)>>
    /\ At(chain, 2).previous_hash = At(chain, 1).hash
    /\ At(chain, 2).previous_hash # calculate_hash(At(chain, 1))

\* the payload a block was made with: its stored hash is the hash of the block
\* holding that payload
OriginalPayload(b) ==
    CHOOSE d \in Payloads \cup {GenesisData} :
        calculate_hash([b EXCEPT !.data = d]) = b.hash

\* C25: on a chain built by add_block, after one tamper_block(i, x), and any
\* add_block calls after it, tamper_block(i, p) with block i's original payload
\* p makes the chain validate again: is_chain_valid() returns valid = true and no
\* errors.
C25_RestoreUndoesTamper ==
    [][(/\ history = "tampered_once"
        /\ ret'.op = "tamper_block"
        /\ ret'.val.out.success
        /\ \A k \in Positions(chain) \ {ret'.val.arg_index} : ~HashStale(At(chain, k))
        /\ ret'.val.arg_data = OriginalPayload(At(chain, ret'.val.arg_index)))
       => is_chain_valid(chain') =
              [valid |-> TRUE, errors |-> <<>>, checked_blocks |-> Len(chain)]]_vars

\* block 1 tampered, block 2 appended, block 1 given back its payload
C25_Witness ==
    /\ history = "other"
    /\ ret.op = "tamper_block"
    /\ ret.val.out.success
    /\ ret.val.arg_index = 1
    /\ ret.val.out.old_data # ret.val.arg_data
    /\ ret.val.arg_data = OriginalPayload(At(chain, 1))
    /\ Len(chain) = 3
    /\ is_chain_valid(chain).valid

----------------------------------------------------------------------------
(* Concurrent add_block *)

Quiet == \A t \in Threads : adders[t].pc = "idle"

\* C26: when requests to /api/blockchain/add run concurrently on the global
\* Blockchain with no lock, under every interleaving the chain they leave has
\* the consecutive indexes 0, 1, 2, ..., every block links to the block before it,
\* and is_chain_valid() is valid.
C26_Original ==
    Quiet =>
        /\ \A k \in Positions(chain) : At(chain, k).index = k
        /\ \A k \in Positions(chain) \ {0} :
             At(chain, k).previous_hash = At(chain, k - 1).hash
        /\ is_chain_valid(chain).valid

----------------------------------------------------------------------------
(* The structure shown for a Merkle tree *)

RECURSIVE EveryNodeHasRight(_)
EveryNodeHasRight(structure) ==
    structure.type = "node" =>
        /\ structure.left # None /\ EveryNodeHasRight(structure.left[1])
        /\ structure.right # None /\ EveryNodeHasRight(structure.right[1])

\* C27: in the structure get_tree_structure returns, a node lacks 'right' only
\* when its right child is a copy made by the padding of an odd level; for a
\* list of two or of four supplied transactions, where no level is padded, every
\* node has both 'left' and 'right', also when transactions are equal ([a, a]).
C27_Original ==
    (mret.op = "get_tree_structure" /\ Len(transactions) \in {2, 4})
        => EveryNodeHasRight(mret.val[1])

----------------------------------------------------------------------------
(* Properties of the contracts *)

\* C28: a deposit_and_dispense call that fails (unknown product, amount below
\* the price, or no stock) leaves the balance and every stock as they were and
\* refunds the whole amount; a call that succeeds adds exactly the price to the
\* balance, takes exactly 1 from that product's stock, leaves the other stocks
\* alone and returns change = amount - price; no stock is ever negative.
C28_AtomicWithRevert ==
    /\ [](\A id \in DOMAIN machine.products : machine.products[id].stock >= 0)
    /\ [][out'.op = "deposit_and_dispense" =>
            LET id == out'.val.product_id
                amount == out'.val.amount
                result == out'.val.result
                fails == \/ id \notin DOMAIN machine.products
                         \/ amount < machine.products[id].price
                         \/ machine.products[id].stock <= 0
            IN IF fails
               THEN /\ result.success = FALSE
                    /\ result.refund = amount
                    /\ machine'.balance = machine.balance
                    /\ machine'.products = machine.products
               ELSE /\ result.success = TRUE
                    /\ result.change = amount - machine.products[id].price
                    /\ machine'.balance = machine.balance + machine.products[id].price
                    /\ machine'.products[id].stock = machine.products[id].stock - 1
                    /\ machine'.products[id].price = machine.products[id].price
                    /\ \A other \in DOMAIN machine.products \ {id} :
                         machine'.products[other] = machine.products[other]]_vars

\* after a reverted call, the last cola is sold for 3 units: 1 unit of change
C28_Witness ==
    /\ out.op = "deposit_and_dispense"
    /\ out.val.product_id = "cola"
    /\ out.val.result.success
    /\ out.val.result.change = 1
    /\ machine.products["cola"].stock = 0
    /\ machine.balance = 2
    /\ Len(machine.transaction_log) = 2
    /\ machine.transaction_log[1].action = "REVERT"

\* C29: on a PaymentChannel made with non-negative deposits, whatever
\* open_channel, transfer and close_channel calls are made and whatever the
\* amounts (zero and negative ones included), neither balance is ever negative,
\* and a transfer is applied only while the channel is open.
C29_Original ==
    /\ channel.alice_balance >= 0
    /\ channel.bob_balance >= 0
    /\ (out.op = "transfer" /\ out.val.result.success) => channel.is_open

Claimed == {id \in DOMAIN contract.policies : contract.policies[id].status = "claimed"}

====
